---- MODULE Spec2Model ----
(***************************************************************************)
(* InvalidationGame (src/invalidationgame.py): one batch of the simulator  *)
(* as a state machine.  The random draws of the program (random.sample,    *)
(* random.choice, random.choices) are nondeterministic choices over every  *)
(* outcome that has positive probability.                                  *)
(*                                                                         *)
(* Scaling.  A hundredth of a percent of hash power is one share unit, and  *)
(* FullShare share units are 100 percent (10000 in the program), so that   *)
(* the default hash space has FullShare hashes.  A value of -w or -s is a  *)
(* float: it is kept as a whole number of raw steps, Precision raw steps   *)
(* to the hundredth of a percent, and round(float(x), 2) rounds it to      *)
(* hundredths.  The hash space and the ticket pool have the sizes the      *)
(* configuration file gives them.                                          *)
(*                                                                         *)
(* Data that the program writes and never reads again is kept only as far  *)
(* as the program's control depends on it: a list of drawn block hashes is *)
(* kept as its length, a chain as the set of its keys (its length is what  *)
(* the program reads), the cycle records as the set of their keys plus the *)
(* record of the current cycle.                                            *)
(***************************************************************************)
EXTENDS Integers, Sequences, FiniteSets, TLC

\* ------------------------------------------------------------------ bounds
\* 100 percent of hash power, in share units (= hashes of the default space).
FullShare == 2
\* raw steps of a -w or -s value per hundredth of a percent
Precision == 3
\* AverageTicketPoolSize of the configuration file; the committee of up to 5
\* tickets is sampled from range(1, size), so 6 is the least size with which
\* every committee size can be drawn.
AverageTicketPoolSize == 6
\* most accepted rounds of one run (cycle_height is unbounded in the code)
MaxCycles == 8
\* most accepted rounds of a two-adversary pure PoW run without rewind
MaxCyclesPoW == 14
\* most invalidated blocks of one run (the counters are unbounded in the code)
MaxInvalidated == 1
\* largest --rewind-blocks value tried (the interface accepts any int > 0)
MaxRewind == 7
\* largest --simulations value tried
MaxSimulations == 3

\* ------------------------------------------------------- python primitives
Max(S) == CHOOSE x \in S : \A y \in S : y <= x
Min(S) == CHOOSE x \in S : \A y \in S : x <= y
Abs(x) == IF x < 0 THEN -x ELSE x

RECURSIVE SumSeq(_)
SumSeq(q) == IF q = <<>> THEN 0 ELSE Head(q) + SumSeq(Tail(q))

\* str(n) for n >= 0: the decimal digits, most significant first
RECURSIVE Str(_)
Str(n) == IF n < 10 THEN <<n>> ELSE Append(Str(n \div 10), n % 10)

\* s.zfill(3)
RECURSIVE Zfill3(_)
Zfill3(ds) == IF Len(ds) >= 3 THEN ds ELSE Zfill3(<<0>> \o ds)

\* s < t on python strings of digits (lexicographic)
RECURSIVE StrLess(_, _)
StrLess(ds, dt) ==
    IF ds = <<>> THEN dt # <<>>
    ELSE IF dt = <<>> THEN FALSE
    ELSE IF Head(ds) # Head(dt) THEN Head(ds) < Head(dt)
    ELSE StrLess(Tail(ds), Tail(dt))

\* dictionary keys: a str key and an int key are never equal
StrKey(ds) == [t |-> "str", v |-> ds]
IntKey(n) == [t |-> "int", v |-> Str(n)]

\* d[k] = v, and d.pop(k, None)
Put(d, k, v) == (k :> v) @@ d
Pop(d, k) == [x \in (DOMAIN d) \ {k} |-> d[x]]
EmptyDict == <<>>

\* round(num / den) of python 3 (round half to even), num >= 0, den > 0
RoundHalfEven(num, den) ==
    LET fl == num \div den
        r2 == 2 * (num % den)
    IN  IF r2 < den THEN fl
        ELSE IF r2 > den THEN fl + 1
        ELSE IF fl % 2 = 0 THEN fl ELSE fl + 1

\* random.sample(population, k): every k-subset can come out
KSubsets(S, k) == {x \in SUBSET S : Cardinality(x) = k}

\* a list of adversaries in iteration order (A0, A1, ...)
RECURSIVE InOrder(_)
InOrder(S) == IF S = {} THEN <<>> ELSE <<Min(S)>> \o InOrder(S \ {Min(S)})

\* ----------------------------------------------------------- configuration
\* args.pow / args.pos lists of length n whose entries sum to total
ShareLists(n, vals, total) == {q \in [1..n -> vals] : SumSeq(q) = total}

\* stake shares tried, in percent
StakeValues == {0, 50, 100}

\* the raw value of a hash power of u share units, and of a stake of p percent
OnGrid(u) == u * Precision
Percent(p) == p * 100 * Precision
FullPow == OnGrid(FullShare)
FullPos == Percent(100)
OnGridList(q) == [i \in DOMAIN q |-> OnGrid(q[i])]
PercentList(q) == [i \in DOMAIN q |-> Percent(q[i])]

\* a command line; --simulations is 1 when it is not given
Config(pw, ps, rb, ra) ==
    [pow |-> pw, pos |-> ps, rewind_blocks |-> rb, rewind_adv |-> ra, simulations |-> 1]

\* configurations that pass sanity_check: pure PoW with two or three
\* adversaries and any rewind; PoW + PoS with two adversaries, with a rewind
\* of two blocks when one adversary holds the whole stake
PurePoWConfigs ==
    {Config(OnGridList(pw), <<>>, rb, ra) :
        pw \in ShareLists(2, 0..FullShare, FullShare) \cup ShareLists(3, 0..FullShare, FullShare),
        rb \in 0..MaxRewind, ra \in 0..2}
StakeConfigs ==
    {c \in {Config(OnGridList(pw), PercentList(ps), rb, ra) :
                pw \in ShareLists(2, 0..FullShare, FullShare),
                ps \in ShareLists(2, StakeValues, 100),
                rb \in {0, 2}, ra \in 0..1} :
        c.rewind_blocks = 0 \/ FullPos \in {c.pos[1], c.pos[2]}}
\* configurations that fail one of the checks of sanity_check (no -w at all
\* is the empty list here)
BadConfigs ==
    {Config(OnGridList(pw), PercentList(ps), 0, ra) :
        pw \in {<<>>} \cup [1..1 -> {FullShare}] \cup [1..2 -> {0, FullShare}],
        ps \in {<<>>, <<100>>, <<50, 50>>, <<50, 100>>},
        ra \in {0, 2}}
\* values that are not whole hundredths of a percent: a raw step more than
\* nothing, a raw step less than everything
OffGridConfigs ==
    {Config(pw, <<>>, 0, 0) :
        pw \in {<<1, FullPow>>, <<FullPow - 1, 0>>, <<FullPow - 1, FullPow - 1>>}}
    \cup {Config(<<FullPow, 0>>, ps, 0, 0) :
        ps \in {<<1, FullPos>>, <<FullPos - 1, FullPos - 1>>}}
\* batches of several runs: pure PoW, A0 five blocks ahead from the start
BatchConfigs ==
    {[Config(OnGridList(<<1, FullShare - 1>>), <<>>, 5, 0) EXCEPT !.simulations = n] :
        n \in 2..MaxSimulations}
Configs ==
    {c \in PurePoWConfigs \cup StakeConfigs :
        /\ c.rewind_adv < Len(c.pow)
        /\ c.rewind_blocks = 0 => c.rewind_adv = 0}
    \cup BadConfigs \cup OffGridConfigs \cup BatchConfigs

\* the values of the configuration file tried with a command line: the
\* default hash space, and with two adversaries, pure PoW and no rewind also
\* a smaller and a larger one; the ticket pool, and with all hash power on A0
\* and the stake in halves also a pool of one ticket more
ConfigFile(h, t) == [block_hash_space |-> h, pos_avg_ticket_pool_size |-> t]
ConfigFiles(c) ==
    {ConfigFile(FullShare, AverageTicketPoolSize)}
    \cup (IF c \in PurePoWConfigs /\ Len(c.pow) = 2 /\ c.rewind_blocks = 0
          THEN {ConfigFile(h, AverageTicketPoolSize) : h \in {FullShare - 1, 2 * FullShare}}
          ELSE {})
    \cup (IF c = Config(<<FullPow, 0>>, <<Percent(50), Percent(50)>>, 0, 0)
          THEN {ConfigFile(FullShare, AverageTicketPoolSize + 1)}
          ELSE {})

\* ------------------------------------------------------------------- state
VARIABLES
    args,           \* the parsed command line: pow, pos, rewind_blocks, rewind_adv,
                    \* simulations
    conf,           \* the globals read_config sets from the configuration file
    pc,             \* where the program is; "exit<n>" after exit(n), the name of
                    \* the exception after an uncaught exception
    adversaries,    \* the global dict adversaries: adversary index -> dict
    sim,            \* simulations["sims"][str(s)] without its "cycles"
    cycles,         \* simulations["sims"][str(s)]["cycles"]: keys, and the
                    \* record under the key of the current cycle_height
    cycle_height,   \* local of run_simulation
    attempt,        \* locals of the last loop iteration of mine_block, empty
                    \* outside mine_block
    block_diff_2,   \* global list
    block_diff_6,   \* global list
    s,              \* the loop variable of run_batch_simulations
    sims,           \* simulations["sims"] without their "cycles": the records of
                    \* the runs before run s, in the order of the runs
    summary         \* simulations["summary"]

vars == <<args, conf, pc, adversaries, sim, cycles, cycle_height, attempt,
          block_diff_2, block_diff_6, s, sims, summary>>

\* adversaries are numbered as enumerate() numbers them: A0, A1, ...
Adv == 0..(Len(args.pow) - 1)
StakeMode == args.pos # <<>>
block_hash_space == conf.block_hash_space
pos_avg_ticket_pool_size == conf.pos_avg_ticket_pool_size
HashSpace == 0..(block_hash_space - 1)
TicketPool == 0..(pos_avg_ticket_pool_size - 1)

Init ==
    /\ args \in Configs
    /\ conf \in ConfigFiles(args)
    /\ pc = "sanity_check"
    /\ adversaries = EmptyDict
    /\ sim = EmptyDict
    /\ cycles = [keys |-> {}, cur |-> EmptyDict]
    /\ cycle_height = 0
    /\ attempt = EmptyDict
    /\ block_diff_2 = <<>>
    /\ block_diff_6 = <<>>
    /\ s = 0
    /\ sims = <<>>
    /\ summary = EmptyDict

\* ------------------------------------------------------------ sanity_check
\* round(float(x), 2) of a raw value, in hundredths
Round2(x) == RoundHalfEven(x, Precision)
Round2List(q) == [i \in DOMAIN q |-> Round2(q[i])]

\* mutant: the sum of the stake shares is not checked
SanityExit_NoStakeSum(pw, ps, ra) ==
    IF Len(pw) < 2 THEN 1
    ELSE IF SumSeq(Round2List(pw)) # FullShare THEN 2
    ELSE IF ps # <<>> /\ Len(pw) # Len(ps) THEN 1
    ELSE IF ra + 1 > Len(pw) THEN 4
    ELSE 0

SanityExit(pw, ps, ra) ==
    IF Len(pw) < 2 THEN 1
    ELSE IF SumSeq(Round2List(pw)) # FullShare THEN 2
    ELSE IF ps # <<>> /\ SumSeq(Round2List(ps)) # 100 * 100 THEN 3
    ELSE IF ps # <<>> /\ Len(pw) # Len(ps) THEN 1
    ELSE IF ra + 1 > Len(pw) THEN 4
    ELSE 0

SanityCheck ==
    /\ pc = "sanity_check"
    /\ LET e == SanityExit(args.pow, args.pos, args.rewind_adv) IN
        pc' = CASE e = 0 -> "calc_hashpower"
                [] e = 1 -> "exit1"
                [] e = 2 -> "exit2"
                [] e = 3 -> "exit3"
                [] e = 4 -> "exit4"
    /\ UNCHANGED <<args, conf, s, sims, summary, adversaries, sim, cycles, cycle_height, attempt,
                   block_diff_2, block_diff_6>>

\* ---------------------------------------------------------- calc_hashpower
\* k of the hash sample: round(round(float(a), 2) * 100), in hashes; the size
\* of the hash space is no part of it
HashSampleSize(a) == Round2(a)

\* k of the ticket sample: round(round(float(s), 2) / 100 * pool size)
TicketSampleSize(st) == RoundHalfEven(Round2(st) * pos_avg_ticket_pool_size, 100 * 100)

\* mutant: a sample larger than the population returns the whole population
SampleOutcomes_Truncated(population, k) ==
    KSubsets(population, Min({k, Cardinality(population)}))

\* random.sample(population, k): every k-subset can come out; no outcome
\* stands for ValueError (sample larger than population)
SampleOutcomes(population, k) ==
    IF k > Cardinality(population) THEN {} ELSE KSubsets(population, k)

\* the first loop of calc_hashpower from adversary i on (1-based position in
\* args.pow): every list of hash samples it can produce; error when
\* random.sample raised ValueError for the adversary after the listed ones
RECURSIVE HashOutcomes(_, _, _)
HashOutcomes(hashpower, i, acc) ==
    IF i > Len(hashpower) THEN {[error |-> FALSE, prob_block_hashes |-> acc]}
    ELSE LET samples == SampleOutcomes(HashSpace, HashSampleSize(hashpower[i])) IN
         IF samples = {}
         THEN {[error |-> TRUE, prob_block_hashes |-> acc]}
         ELSE UNION {HashOutcomes(hashpower, i + 1, Append(acc, S)) : S \in samples}

\* mutant: the selected tickets stay in the pool
RemainingPool_NoRemoval(pool, selected_tickets) == pool

\* the pool an adversary's tickets are sampled from: the tickets no earlier
\* adversary has got
RemainingPool(pool, selected_tickets) == pool \ selected_tickets

\* the second loop of calc_hashpower from adversary i on (1-based position in
\* args.pos): every list of ticket samples it can produce; error when
\* random.sample raised ValueError for the adversary after the listed ones
RECURSIVE TicketOutcomes(_, _, _, _)
TicketOutcomes(stake, i, ticket_pool, acc) ==
    IF i > Len(stake) THEN {[error |-> FALSE, prob_tickets |-> acc]}
    ELSE LET samples == SampleOutcomes(ticket_pool, TicketSampleSize(stake[i])) IN
         IF samples = {}
         THEN {[error |-> TRUE, prob_tickets |-> acc]}
         ELSE UNION {TicketOutcomes(stake, i + 1, RemainingPool(ticket_pool, S),
                                    Append(acc, S)) : S \in samples}

\* the dict of a new adversary before its hashes are sampled (lines 227-231),
\* with its hashes (235-236), and with its stake part (243-247; the tickets
\* are missing when their sample raised ValueError)
BareAdversary(a) ==
    [hashpower |-> a, drawn_block_hashes |-> 0, chain |-> {}, sum_blocks |-> 0]
NewAdversary(a, hashes) ==
    [prob_block_hashes |-> hashes] @@ BareAdversary(a)
StakeWithoutTickets(adv, st) ==
    [validated_blocks |-> 0, invalidated_blocks |-> 0, stakesize |-> st] @@ adv
WithStake(adv, st, tickets) ==
    [prob_tickets |-> tickets] @@ StakeWithoutTickets(adv, st)

CalcHashpower ==
    /\ pc = "calc_hashpower"
    /\ \E ho \in HashOutcomes(args.pow, 1, <<>>) :
       LET done == Len(ho.prob_block_hashes)
           pure == [a \in 0..(done - 1) |->
                       NewAdversary(args.pow[a + 1], ho.prob_block_hashes[a + 1])]
       IN
       IF ho.error
       THEN /\ adversaries' = (done :> BareAdversary(args.pow[done + 1])) @@ pure
            /\ pc' = "ValueError"
       ELSE IF ~StakeMode
       THEN /\ adversaries' = pure
            /\ pc' = "create_simulation"
       ELSE \E o \in TicketOutcomes(args.pos, 1, TicketPool, <<>>) :
            LET staked == Len(o.prob_tickets) IN
            /\ adversaries' =
                  [a \in Adv |->
                      IF a < staked
                      THEN WithStake(pure[a], args.pos[a + 1], o.prob_tickets[a + 1])
                      ELSE IF a = staked
                      THEN StakeWithoutTickets(pure[a], args.pos[a + 1])
                      ELSE pure[a]]
            /\ pc' = IF o.error THEN "ValueError" ELSE "create_simulation"
    /\ UNCHANGED <<args, conf, s, sims, summary, sim, cycles, cycle_height, attempt, block_diff_2, block_diff_6>>

\* --------------------------- create_simulation, setup_block_rewind (265-287)
CreateSimulation ==
    /\ pc = "create_simulation"
    /\ sim' = EmptyDict
    /\ cycles' = [keys |-> {}, cur |-> EmptyDict]
    /\ pc' = IF args.rewind_blocks > 0 THEN "setup_block_rewind" ELSE "run_simulation"
    /\ UNCHANGED <<args, conf, s, sims, summary, adversaries, cycle_height, attempt, block_diff_2, block_diff_6>>

\* the key of the next block of a chain: str(len(chain)).zfill(3) in
\* setup_block_rewind and in pure PoW mining, str(len(chain)) in PoS mining
RewindChainKey(chain) == StrKey(Zfill3(Str(Cardinality(chain))))
PowChainKey(chain) == StrKey(Zfill3(Str(Cardinality(chain))))
PosChainKey(chain) == StrKey(Str(Cardinality(chain)))

\* mutant: the chain is replaced by the new block
ChainPut_Replace(chain, key) == {key}

\* chain[key] = {...}: a new key makes the chain longer, an old key is overwritten
ChainPut(chain, key) == chain \cup {key}

\* mutant: one fake block whatever --rewind-blocks says
RewindAdversary_OneBlock(adv, b) ==
    [adv EXCEPT !.drawn_block_hashes = @ + 1,
                !.chain = ChainPut(@, RewindChainKey(@))]

\* b fake blocks appended to one adversary, one after the other
RECURSIVE RewindAdversary(_, _)
RewindAdversary(adv, b) ==
    IF b = 0 THEN adv
    ELSE LET before == RewindAdversary(adv, b - 1) IN
         [before EXCEPT !.drawn_block_hashes = @ + 1,
                        !.chain = ChainPut(@, RewindChainKey(@))]

SetupBlockRewind ==
    /\ pc = "setup_block_rewind"
    /\ cycles' = [keys |-> cycles.keys \cup {StrKey(Str(b)) : b \in 0..(args.rewind_blocks - 1)},
                  cur |-> EmptyDict]
    /\ adversaries' = [adversaries EXCEPT ![args.rewind_adv] =
                          RewindAdversary(@, args.rewind_blocks)]
    /\ pc' = "run_simulation"
    /\ UNCHANGED <<args, conf, s, sims, summary, sim, cycle_height, attempt, block_diff_2, block_diff_6>>

\* ----------------------------------------- run_simulation, lines 482-486
RunSimulationStart ==
    /\ pc = "run_simulation"
    /\ sim' = Put(Put(sim, "2-block-diff", -1), "6-block-diff", -1)
    /\ cycle_height' = Cardinality(cycles.keys)
    /\ pc' = "calc_distance"
    /\ UNCHANGED <<args, conf, s, sims, summary, adversaries, cycles, attempt, block_diff_2, block_diff_6>>

\* ------------------------------------------------------------- mine_block
\* the most accepted rounds of a run of this configuration
CycleCap ==
    IF /\ Len(args.pow) = 2 /\ ~StakeMode /\ args.rewind_blocks = 0
       /\ block_hash_space = FullShare
    THEN MaxCyclesPoW ELSE MaxCycles

\* mutant: the loop over the adversaries stops at the first owner
PowWinners_FirstOnly(advs, draw_block_hash) ==
    LET owners == {a \in DOMAIN advs : draw_block_hash \in advs[a].prob_block_hashes}
    IN  IF owners = {} THEN {} ELSE {Min(owners)}

\* the adversaries that own the drawn block hash (line 313)
PowWinners(advs, draw_block_hash) ==
    {a \in DOMAIN advs : draw_block_hash \in advs[a].prob_block_hashes}

\* the committee sizes random.choices can return: each has a positive weight
CommitteeSizes == {5, 4, 3}

\* random.sample(range(1, pos_avg_ticket_pool_size), k), line 340
CommitteePool == 1..(pos_avg_ticket_pool_size - 1)

\* mutant: every drawn ticket counts for every adversary
OwnedDrawnTickets_All(adv, drawn_tickets) == drawn_tickets

\* adversaries[a]["drawn_tickets"], line 346
OwnedDrawnTickets(adv, drawn_tickets) == drawn_tickets \cap adv.prob_tickets

\* mutant: half of the committee is enough
Confirmed_AtLeastHalf(total_tickets, pos_allowed_drawn_tickets) ==
    total_tickets >= pos_allowed_drawn_tickets \div 2

\* line 351
Confirmed(total_tickets, pos_allowed_drawn_tickets) ==
    total_tickets > pos_allowed_drawn_tickets \div 2

\* mutant: a PoW winner gets the drawn hash twice
PowMined_Twice(adv, won, stake) ==
    IF ~won THEN adv
    ELSE IF stake THEN [adv EXCEPT !.drawn_block_hashes = @ + 2]
    ELSE [adv EXCEPT !.drawn_block_hashes = @ + 2,
                     !.chain = ChainPut(@, PowChainKey(@))]

\* one adversary after the PoW part of an attempt (lines 313-323)
PowMined(adv, won, stake) ==
    IF ~won THEN adv
    ELSE IF stake THEN [adv EXCEPT !.drawn_block_hashes = @ + 1]
    ELSE [adv EXCEPT !.drawn_block_hashes = @ + 1,
                     !.chain = ChainPut(@, PowChainKey(@))]

\* mutant: the hash of an invalidated block stays in drawn_block_hashes
PosMined_NoUndo(adv, drawn_tickets, k) ==
    IF Confirmed(Cardinality(OwnedDrawnTickets(adv, drawn_tickets)), k)
    THEN [adv EXCEPT !.validated_blocks = @ + 1,
                     !.chain = ChainPut(@, PosChainKey(@))]
    ELSE [adv EXCEPT !.invalidated_blocks = @ + 1]

\* one PoW winner after the PoS part of an attempt (lines 351-375)
PosMined(adv, drawn_tickets, k) ==
    IF Confirmed(Cardinality(OwnedDrawnTickets(adv, drawn_tickets)), k)
    THEN [adv EXCEPT !.validated_blocks = @ + 1,
                     !.chain = ChainPut(@, PosChainKey(@))]
    ELSE [adv EXCEPT !.invalidated_blocks = @ + 1,
                     !.drawn_block_hashes = @ - 1]

\* the record of the cycle after an attempt (lines 307-310, 316, 332, 353):
\* cycle_height is an int and the keys of cycles are strings, so the test of
\* line 307 finds no key and the record is made anew
CycleKey(h) == StrKey(Zfill3(Str(h)))
MinedCycleRecord(cyc, h, draw_block_hash, winners) ==
    LET old == IF IntKey(h) \notin cyc.keys THEN EmptyDict ELSE cyc.cur IN
    [keys |-> cyc.keys \cup {CycleKey(h)},
     cur |-> Put(Put(old, "drawn_block_hash", draw_block_hash),
                 "pow_winners", InOrder(winners))]

\* the invalidated blocks of all adversaries
TotalInvalidated(advs) ==
    SumSeq([i \in 1..Cardinality(DOMAIN advs) |-> advs[i - 1].invalidated_blocks])

\* one iteration of the loop of mine_block; of its locals the state keeps the
\* drawn hash, the committee size and every adversary's total_tickets
MineAttempt ==
    /\ pc = "mine_block"
    /\ cycle_height < CycleCap
    /\ \E draw_block_hash \in HashSpace :
       LET winners == PowWinners(adversaries, draw_block_hash)
           afterPow == [a \in Adv |-> PowMined(adversaries[a], a \in winners, StakeMode)]
           cyc == MinedCycleRecord(cycles, cycle_height, draw_block_hash, winners)
       IN
       IF winners = {} \/ ~StakeMode
       THEN /\ adversaries' = afterPow
            /\ cycles' = cyc
            /\ attempt' = [draw_block_hash |-> draw_block_hash,
                           pow_winner |-> winners # {}]
            /\ pc' = IF winners # {} THEN "mined" ELSE "mine_block"
       ELSE \E k \in CommitteeSizes :
            IF k > Cardinality(CommitteePool)
            THEN \* random.sample raises ValueError
                 /\ adversaries' = afterPow
                 /\ cycles' = [cyc EXCEPT !.cur = Put(@, "pos_winners", <<>>)]
                 /\ attempt' = [draw_block_hash |-> draw_block_hash,
                                pow_winner |-> TRUE,
                                pos_allowed_drawn_tickets |-> k]
                 /\ pc' = "ValueError"
            ELSE \E drawn_tickets \in KSubsets(CommitteePool, k) :
                 LET afterPos == [a \in Adv |->
                                    IF a \in winners
                                    THEN PosMined(afterPow[a], drawn_tickets, k)
                                    ELSE afterPow[a]]
                     pos_winners == {a \in winners :
                                       afterPos[a].validated_blocks
                                         > adversaries[a].validated_blocks}
                 IN
                 /\ TotalInvalidated(afterPos) <= MaxInvalidated
                 /\ adversaries' = afterPos
                 /\ cycles' = [cyc EXCEPT !.cur = Put(@, "pos_winners", InOrder(pos_winners))]
                 /\ attempt' = [draw_block_hash |-> draw_block_hash,
                                pow_winner |-> pos_winners # {},
                                pos_allowed_drawn_tickets |-> k,
                                total_tickets |->
                                    [a \in Adv |-> Cardinality(OwnedDrawnTickets(adversaries[a], drawn_tickets))],
                                pos_winner |-> pos_winners # {}]
                 /\ pc' = IF pos_winners # {} THEN "mined" ELSE "mine_block"
    /\ UNCHANGED <<args, conf, s, sims, summary, sim, cycle_height, block_diff_2, block_diff_6>>

\* ------------------------------- run_simulation, lines 493-498 (loop body)
UpdateSumBlocks ==
    /\ pc = "mined"
    /\ adversaries' = [a \in Adv |->
                          [adversaries[a] EXCEPT !.sum_blocks = adversaries[a].drawn_block_hashes]]
    /\ cycle_height' = cycle_height + 1
    \* the record under the key of the next cycle: the key is new, as the
    \* keys so far are 3-digit keys of lower cycles and 1-digit rewind keys
    /\ cycles' = [cycles EXCEPT !.cur = EmptyDict]
    /\ attempt' = EmptyDict
    /\ pc' = "calc_distance"
    /\ UNCHANGED <<args, conf, s, sims, summary, sim, block_diff_2, block_diff_6>>

\* ---------------------------------------------------------- calc_distance
\* seq: the number of drawn block hashes of every adversary (lines 390-392)
BlockCounts(advs) == [a \in DOMAIN advs |-> advs[a].drawn_block_hashes]

\* lines 396-406: the last adversary at the lagging height, and the last one
\* at the leading height that is not at the lagging height (-1 for "")
LaggingAdv(advs) ==
    LET seq == BlockCounts(advs)
        lagging_height == Min({seq[a] : a \in DOMAIN advs})
    IN  Max({a \in DOMAIN advs : seq[a] = lagging_height})
LeadingAdv(advs) ==
    LET seq == BlockCounts(advs)
        lagging_height == Min({seq[a] : a \in DOMAIN advs})
        leading_height == Max({seq[a] : a \in DOMAIN advs})
        leaders == {a \in DOMAIN advs : seq[a] # lagging_height /\ seq[a] = leading_height}
    IN  IF leaders = {} THEN -1 ELSE Max(leaders)

\* mutant: the distance between the first two adversaries only
CalculatedDistance_FirstTwo(advs) ==
    Abs(advs[0].drawn_block_hashes - advs[1].drawn_block_hashes)

\* lines 409-413
CalculatedDistance(advs) ==
    LET seq == BlockCounts(advs)
        distances == {Abs(seq[a] - seq[b]) : a, b \in DOMAIN advs} \ {0}
    IN  IF distances = {} THEN 0 ELSE Max(distances)

\* winner_list and max(winner_list, key=winner_list.get), lines 421-424 and
\* 437-440: the values compared are the strings str(sum_blocks), and max
\* returns the first adversary whose value no other value exceeds
WinnerScore(advs, a) == Str(advs[a].sum_blocks)
MilestoneWinner(advs) ==
    Min({a \in DOMAIN advs :
            \A b \in DOMAIN advs : ~StrLess(WinnerScore(advs, a), WinnerScore(advs, b))})

\* mutant: the 2-block milestone is recorded at every distance of 2
RecordMilestone_NoGuard(sm, advs, d, h) ==
    IF d = 2
    THEN Put(Put(Put(sm, "2-block-diff", h + 1),
                 "2-block-diff_winner", MilestoneWinner(advs)),
             "2-block-diff_winner_score", WinnerScore(advs, MilestoneWinner(advs)))
    ELSE IF d = 6
    THEN Put(Put(Put(sm, "6-block-diff", h + 1),
                 "6-block-diff_winner", MilestoneWinner(advs)),
             "6-block-diff_winner_score", WinnerScore(advs, MilestoneWinner(advs)))
    ELSE sm

\* mutant: the branch of distance 6 writes the cycle count under "2-block-diff"
RecordMilestone_SixAsTwo(sm, advs, d, h) ==
    IF d = 2 /\ sm["2-block-diff"] = -1
    THEN Put(Put(Put(sm, "2-block-diff", h + 1),
                 "2-block-diff_winner", MilestoneWinner(advs)),
             "2-block-diff_winner_score", WinnerScore(advs, MilestoneWinner(advs)))
    ELSE IF d = 6
    THEN Put(Put(Put(sm, "2-block-diff", h + 1),
                 "6-block-diff_winner", MilestoneWinner(advs)),
             "6-block-diff_winner_score", WinnerScore(advs, MilestoneWinner(advs)))
    ELSE sm

\* lines 416-447: the milestones after an observation of distance d
RecordMilestone(sm, advs, d, h) ==
    IF d = 2 /\ sm["2-block-diff"] = -1
    THEN Put(Put(Put(sm, "2-block-diff", h + 1),
                 "2-block-diff_winner", MilestoneWinner(advs)),
             "2-block-diff_winner_score", WinnerScore(advs, MilestoneWinner(advs)))
    ELSE IF d = 6
    THEN Put(Put(Put(sm, "6-block-diff", h + 1),
                 "6-block-diff_winner", MilestoneWinner(advs)),
             "6-block-diff_winner_score", WinnerScore(advs, MilestoneWinner(advs)))
    ELSE sm

\* ------------------------------------------------- float arithmetic
\* A float is followed as the rational number num / den (in lowest terms)
\* as long as the operations on it are exact for the question asked of it
\* (is it 0, is it 1); the result of math.exp of a number other than 0 and of
\* a power with a fractional exponent is Inexact: some finite float.
RECURSIVE GCD(_, _)
GCD(a, b) == IF b = 0 THEN a ELSE GCD(b, a % b)
Rat(n, d) ==
    LET g == GCD(Abs(n), d) IN [exact |-> TRUE, num |-> n \div g, den |-> d \div g]
Inexact == [exact |-> FALSE, num |-> 0, den |-> 0]
Zero == Rat(0, 1)
One == Rat(1, 1)
FSub(a, b) ==
    IF a.exact /\ b.exact THEN Rat(a.num * b.den - b.num * a.den, a.den * b.den)
    ELSE Inexact
\* a finite float times 0.0 is 0.0
FMul(a, b) ==
    IF a = Zero \/ b = Zero THEN Zero
    ELSE IF a.exact /\ b.exact THEN Rat(a.num * b.num, a.den * b.den)
    ELSE Inexact
\* b is not 0.0 and not negative where the program divides
FDiv(a, b) ==
    IF a = Zero THEN Zero
    ELSE IF a.exact /\ b.exact THEN Rat(a.num * b.den, a.den * b.num)
    ELSE Inexact
\* pow(a, n) for an int n >= 0: pow(x, 0) is 1.0 for every x
RECURSIVE FPowInt(_, _)
FPowInt(a, n) ==
    IF n = 0 THEN One
    ELSE IF a.exact THEN FMul(a, FPowInt(a, n - 1))
    ELSE Inexact
\* pow(a, e) for floats a >= 0 and 0 <= e <= 1
FPow(a, e) ==
    IF e = Zero THEN One
    ELSE IF a = Zero THEN Zero
    ELSE IF e = One THEN a
    ELSE IF a = One THEN One
    ELSE Inexact
\* math.exp(-x): 1.0 for x = 0.0
FExpNeg(x) == IF x = Zero THEN One ELSE Inexact

\* --------------------------- attacker_success_probability (lines 761-773)
\* poisson after the inner loop of term k (lines 769-771)
RECURSIVE Poisson(_, _)
Poisson(lambda_var, k) ==
    IF k = 0 THEN FExpNeg(lambda_var)
    ELSE FMul(Poisson(lambda_var, k - 1), FDiv(lambda_var, Rat(k, 1)))

\* mutant: the exponent of line 772 is z - k + 1
RECURSIVE SumValue_ExponentPlusOne(_, _, _, _)
SumValue_ExponentPlusOne(q_over_p, lambda_var, z, k) ==
    IF k < 0 THEN One
    ELSE FSub(SumValue_ExponentPlusOne(q_over_p, lambda_var, z, k - 1),
              FMul(Poisson(lambda_var, k), FSub(One, FPowInt(q_over_p, z - k + 1))))

\* sum_value after the terms 0 .. k of the loop of line 768
RECURSIVE SumValue(_, _, _, _)
SumValue(q_over_p, lambda_var, z, k) ==
    IF k < 0 THEN One
    ELSE FSub(SumValue(q_over_p, lambda_var, z, k - 1),
              FMul(Poisson(lambda_var, k), FSub(One, FPowInt(q_over_p, z - k))))

\* called with q # 1 only: q = 1 is the ZeroDivisionError of line 766
AttackerSuccessProbability(q, z) ==
    LET p == FSub(One, q)
        q_over_p == FDiv(q, p)
        lambda_var == FMul(Rat(z, 1), q_over_p)
    IN  SumValue(q_over_p, lambda_var, z, z)

\* lines 457-462: q of the lagging adversary
Q(adv, stake) ==
    LET q_hash == Rat(adv.hashpower, FullPow) IN
    IF ~stake THEN q_hash
    ELSE LET q_stake == Rat(adv.stakesize, FullPos) IN
         FPow(FMul(q_hash, q_stake), FSub(One, q_stake))

\* lines 765-766: p = 1 - q is 0 and q / p raises ZeroDivisionError when q is
\* 1: the hashpower is 100 percent (pure PoW), or the stake size is 100
\* percent (the exponent 1 - q_stake is 0 and pow(x, 0) is 1)
QIsOne(adv, stake) == Q(adv, stake) = One

\* one evaluation of the loop condition of run_simulation (line 489): the call
\* of calc_distance and the test of its result
CalcDistance ==
    /\ pc = "calc_distance"
    /\ IF cycle_height < 1
       THEN \* line 386: return 0
            /\ pc' = "mine_block"
            /\ UNCHANGED <<sim, cycles>>
       ELSE LET d == CalculatedDistance(adversaries)
                lagging_adv == LaggingAdv(adversaries)
            IN
            IF d # 2 /\ d # 6 /\ d > 6
            THEN /\ pc' = "exit5"
                 /\ UNCHANGED <<sim, cycles>>
            ELSE /\ sim' = RecordMilestone(sim, adversaries, d, cycle_height)
                 /\ IF QIsOne(adversaries[lagging_adv], StakeMode)
                    THEN /\ pc' = "ZeroDivisionError"
                         /\ UNCHANGED cycles
                    ELSE /\ cycles' =
                              [keys |-> cycles.keys \cup {CycleKey(cycle_height)},
                               cur |-> [distance_before_this_cycle |-> d,
                                        probability_before_this_cycle |->
                                            AttackerSuccessProbability(
                                                Q(adversaries[lagging_adv], StakeMode), d)]]
                         /\ pc' = IF d < 6 THEN "mine_block" ELSE "finish"
    /\ UNCHANGED <<args, conf, s, sims, summary, adversaries, cycle_height, attempt, block_diff_2, block_diff_6>>

\* ------------------------------------------ run_simulation, lines 500-518
\* args.noeraseprob and args.noerasedrawn are not set
CleanUp(adv) ==
    [f \in (DOMAIN adv) \ {"prob_block_hashes", "prob_tickets",
                           "drawn_block_hashes", "drawn_tickets"} |-> adv[f]]

FinishRun ==
    /\ pc = "finish"
    /\ adversaries' = [a \in Adv |-> CleanUp(adversaries[a])]
    /\ sim' = Put(sim, "adversaries", adversaries')
    /\ block_diff_2' = Append(block_diff_2, sim["2-block-diff"])
    /\ block_diff_6' = Append(block_diff_6, sim["6-block-diff"])
    /\ pc' = "run_done"
    /\ UNCHANGED <<args, conf, s, sims, summary, cycles, cycle_height, attempt>>

\* ------------------------------- run_batch_simulations, lines 539-552
\* the end of one pass of the loop: run s is over, its record stays in
\* simulations["sims"], and the next run starts or the loop ends
\* mutant: every run is stored under the key of the last one
NextSimulation_SameKey ==
    /\ pc = "run_done"
    /\ sims' = [i \in 1..(Len(sims) + 1) |-> sim]
    /\ s' = s + 1
    /\ sim' = EmptyDict
    /\ cycles' = [keys |-> {}, cur |-> EmptyDict]
    /\ cycle_height' = 0
    /\ pc' = IF s + 1 < args.simulations THEN "calc_hashpower" ELSE "calc_averages"
    /\ UNCHANGED <<args, conf, adversaries, attempt, block_diff_2, block_diff_6, summary>>

NextSimulation ==
    /\ pc = "run_done"
    /\ sims' = Append(sims, sim)
    /\ s' = s + 1
    /\ sim' = EmptyDict
    /\ cycles' = [keys |-> {}, cur |-> EmptyDict]
    /\ cycle_height' = 0
    /\ pc' = IF s + 1 < args.simulations THEN "calc_hashpower" ELSE "calc_averages"
    /\ UNCHANGED <<args, conf, adversaries, attempt, block_diff_2, block_diff_6, summary>>

\* ------------------------------------------------ calc_averages (555-610)
\* round(statistics.mean(data), 6) of a list of ints, in millionths
Million == 1000000
Mean6(data) ==
    LET total == SumSeq(data) IN
    IF total >= 0 THEN RoundHalfEven(total * Million, Len(data))
    ELSE -RoundHalfEven((-total) * Million, Len(data))

\* mutant: only the first run is looked at
WinCounts_FirstRun(runs, a) ==
    Cardinality({i \in {1} : runs[i]["6-block-diff_winner"] = a})

\* win_counts and sum_blocks_list of adversary a (lines 578-586)
WinCounts(runs, a) ==
    Cardinality({i \in 1..Len(runs) : runs[i]["6-block-diff_winner"] = a})
SumBlocksList(runs, a) ==
    [i \in 1..Len(runs) |-> runs[i]["adversaries"][a].sum_blocks]

\* mutant: the list of an adversary holds the blocks of the last run only
SumBlocksAverage_LastRun(runs, a) ==
    Mean6(<<runs[Len(runs)]["adversaries"][a].sum_blocks>>)

\* simulations["summary"]["sum_blocks"][a]["average"], line 589
SumBlocksAverage(runs, a) == Mean6(SumBlocksList(runs, a))

CalcAverages ==
    /\ pc = "calc_averages"
    /\ summary' =
          [total |-> Len(block_diff_2),
           rewind_blocks |-> args.rewind_blocks,
           rewind_adv |-> args.rewind_adv,
           pow |-> [avg2 |-> Mean6(block_diff_2), avg6 |-> Mean6(block_diff_6)],
           total_wins |-> [a \in DOMAIN adversaries |-> WinCounts(sims, a)],
           sum_blocks |-> [a \in DOMAIN adversaries |->
                              [average |-> SumBlocksAverage(sims, a)]]]
    /\ pc' = "exit0"
    /\ UNCHANGED <<args, conf, adversaries, sim, cycles, cycle_height, attempt,
                   block_diff_2, block_diff_6, s, sims>>

\* ------------------------------------------------------ main (783-798)
\* where the program is while main is in run_batch_simulations
InBatch ==
    {"calc_hashpower", "create_simulation", "setup_block_rewind", "run_simulation",
     "calc_distance", "mine_block", "mined", "finish", "run_done", "calc_averages"}

\* KeyboardInterrupt is raised wherever the program is, and main exits
KeyboardInterrupt ==
    /\ pc \in InBatch
    /\ pc' = "exit7"
    /\ UNCHANGED <<args, conf, adversaries, sim, cycles, cycle_height, attempt,
                   block_diff_2, block_diff_6, s, sims, summary>>

\* ----------------------------------------------------------- the program
Next ==
    \/ SanityCheck
    \/ CalcHashpower
    \/ CreateSimulation
    \/ SetupBlockRewind
    \/ RunSimulationStart
    \/ CalcDistance
    \/ MineAttempt
    \/ UpdateSumBlocks
    \/ FinishRun
    \/ NextSimulation
    \/ CalcAverages
    \/ KeyboardInterrupt

Spec == Init /\ [][Next]_vars

\* ------------------------------------------------------------ properties
Range(q) == {q[i] : i \in 1..Len(q)}
ChainLen(advs, a) == Cardinality(advs[a].chain)

\* the adversaries that own the hash recorded for the cycle
OwnersOfDrawnHash(advs, cyc) ==
    {a \in DOMAIN advs : cyc.cur.drawn_block_hash \in advs[a].prob_block_hashes}

\* a strict majority of a committee of k tickets
StrictMajority(t, k) == 2 * t > k

\* the winners an attempt accepts: in pure PoW every owner of the drawn hash,
\* in stake mode the owners that hold a strict majority of the committee
AcceptedWinners(advs, cyc, att) ==
    IF "pos_allowed_drawn_tickets" \in DOMAIN att
    THEN {a \in OwnersOfDrawnHash(advs, cyc) :
            StrictMajority(att.total_tickets[a], att.pos_allowed_drawn_tickets)}
    ELSE OwnersOfDrawnHash(advs, cyc)

\* an attempt of mine_block: a step from inside mine_block that draws
AttemptStep == pc = "mine_block" /\ pc' \in {"mine_block", "mined"}
AcceptedStep == pc = "mine_block" /\ pc' = "mined"
RejectedStep == pc = "mine_block" /\ pc' = "mine_block"

\* C1: when mine_block returns, the chains of exactly the accepted winners have
\* one more block than before the accepted attempt and every other chain is as
\* it was; the accepted winners are all owners of the drawn hash in pure PoW,
\* and in stake mode the owners that were confirmed, of which there is one at
\* least; the attempts before the accepted one changed no chain.
C1_AcceptedWinnersGrow ==
    [][AttemptStep =>
        LET acc == AcceptedWinners(adversaries, cycles', attempt') IN
        /\ AcceptedStep => acc # {}
        /\ RejectedStep => acc = {}
        /\ acc \subseteq OwnersOfDrawnHash(adversaries, cycles')
        /\ StakeMode =>
              acc = IF "pos_winners" \in DOMAIN cycles'.cur
                    THEN Range(cycles'.cur.pos_winners) ELSE {}
        /\ \A a \in DOMAIN adversaries :
              IF a \in acc
              THEN /\ ChainLen(adversaries', a) = ChainLen(adversaries, a) + 1
                   /\ adversaries[a].chain \subseteq adversaries'[a].chain
              ELSE adversaries'[a].chain = adversaries[a].chain]_vars

\* C1 witness: a stake-mode round was accepted in which two adversaries owned
\* the drawn hash and only one of them was confirmed
C1_Witness ==
    /\ pc = "mined"
    /\ StakeMode
    /\ Len(cycles.cur.pow_winners) = 2
    /\ Len(cycles.cur.pos_winners) = 1

\* C2: chains are append-only and change only on accepted rounds: a rejected
\* attempt (no PoW winner, or no PoW winner confirmed) leaves every chain as it
\* was, and an accepted attempt keeps every block that was in a chain (rewind
\* blocks included) and puts a new block under a key that was not in the chain.
C2_ChainsAppendOnly ==
    [][/\ RejectedStep =>
            \A a \in DOMAIN adversaries : adversaries'[a].chain = adversaries[a].chain
       /\ AcceptedStep =>
            \A a \in DOMAIN adversaries :
               /\ adversaries[a].chain \subseteq adversaries'[a].chain
               /\ Cardinality(adversaries'[a].chain \ adversaries[a].chain) <= 1
               /\ a \in Range(IF StakeMode THEN cycles'.cur.pos_winners
                                           ELSE cycles'.cur.pow_winners)
                    => Cardinality(adversaries'[a].chain \ adversaries[a].chain) = 1
       /\ pc \in {"calc_distance", "mined", "finish"} =>
            \A a \in DOMAIN adversaries : adversaries'[a].chain = adversaries[a].chain]_vars

\* C2 witness: in stake mode an attempt was rejected because no PoW winner was
\* confirmed, while a chain holds rewind blocks
C2_Witness ==
    /\ pc = "mine_block"
    /\ "pos_winner" \in DOMAIN attempt
    /\ ~attempt.pos_winner
    /\ \E a \in DOMAIN adversaries : Cardinality(adversaries[a].chain) = args.rewind_blocks
                                     /\ args.rewind_blocks > 0

\* the largest difference between the lengths of two chains
ChainDistance(advs) ==
    Max({Abs(ChainLen(advs, a) - ChainLen(advs, b)) : a, b \in DOMAIN advs})

\* C3: when run_simulation leaves its loop the largest difference between the
\* block counts of two adversaries is exactly 6, and mine_block is entered
\* only while that difference is below 6.
C3_RunEndsAtDistance6 ==
    /\ pc \in {"finish", "run_done"} => ChainDistance(adversaries) = 6
    /\ pc = "mine_block" => ChainDistance(adversaries) < 6

\* C3 witness: a run of three adversaries left the loop after more than six
\* cycles
C3_Witness ==
    /\ pc = "finish"
    /\ Len(args.pow) = 3
    /\ cycle_height > 6

\* C4: no observation of the Distance Tracker yields a distance above 6, and
\* the program never exits with code 5, in any configuration that sanity_check
\* accepts (the original claim; refuted by --rewind-blocks 7).
C4_NeverAboveSix ==
    /\ pc = "calc_distance" /\ cycle_height >= 1 => CalculatedDistance(adversaries) <= 6
    /\ pc # "exit5"

\* C5: the adversary recorded as 6-block leader has the numerically highest
\* sum_blocks among the adversaries (the original claim; refuted when the
\* leader has 10 blocks and the other adversary 4, as "4" > "10" as strings).
C5_SixBlockLeaderHasMostBlocks ==
    "6-block-diff_winner" \in DOMAIN sim =>
        \A b \in DOMAIN adversaries :
            adversaries[b].sum_blocks <= adversaries[sim["6-block-diff_winner"]].sum_blocks

\* C6: at the instant the 2-block milestone is recorded, the adversary recorded
\* as 2-block leader has the highest number of blocks (the original claim;
\* refuted when a rewind of 2 blocks is given to A1: A0 is recorded).
C6_TwoBlockLeaderHasMostBlocks ==
    (/\ pc = "mine_block"
     /\ attempt = EmptyDict
     /\ sim["2-block-diff"] = cycle_height + 1)
    => \A b \in DOMAIN adversaries :
          adversaries[b].drawn_block_hashes
            <= adversaries[sim["2-block-diff_winner"]].drawn_block_hashes

\* C7: within a run the milestones are write-once: once 2-block-diff differs
\* from -1, no step changes it, its winner or its winner's score; once
\* 6-block-diff differs from -1, no step changes it or its winner.
Same(f, g, k) == k \in DOMAIN f /\ k \in DOMAIN g /\ f[k] = g[k]
C7_MilestonesWriteOnce ==
    [][s' = s =>
       /\ ("2-block-diff" \in DOMAIN sim /\ sim["2-block-diff"] # -1) =>
            /\ Same(sim, sim', "2-block-diff")
            /\ Same(sim, sim', "2-block-diff_winner")
            /\ Same(sim, sim', "2-block-diff_winner_score")
       /\ ("6-block-diff" \in DOMAIN sim /\ sim["6-block-diff"] # -1) =>
            /\ Same(sim, sim', "6-block-diff")
            /\ Same(sim, sim', "6-block-diff_winner")
            /\ Same(sim, sim', "6-block-diff_winner_score")]_vars

\* C7 witness: a distance of 2 was observed again after the 2-block milestone
\* had been recorded at an earlier cycle
C7_Witness ==
    /\ pc = "mine_block"
    /\ attempt = EmptyDict
    /\ "distance_before_this_cycle" \in DOMAIN cycles.cur
    /\ cycles.cur.distance_before_this_cycle = 2
    /\ sim["2-block-diff"] \notin {-1, cycle_height + 1}

\* C8: a completed run without rewind has both milestones set, and the cycle
\* count of the 2-block milestone is at most that of the 6-block milestone.
C8_BothMilestonesSet ==
    (pc \in {"finish", "run_done"} /\ args.rewind_blocks = 0) =>
        /\ sim["2-block-diff"] # -1
        /\ sim["6-block-diff"] # -1
        /\ sim["2-block-diff"] <= sim["6-block-diff"]

\* C8 witness: a stake-mode run without rewind was completed after the lead
\* had changed sides (more than 6 cycles were needed)
C8_Witness ==
    /\ pc = "finish"
    /\ StakeMode
    /\ args.rewind_blocks = 0
    /\ cycle_height > 6

\* C9: after the ticket assignment the prob_tickets of two distinct adversaries
\* are disjoint, every owned ticket is a ticket of the pool, and the sizes of
\* the prob_tickets sum to at most the pool size.
WithTickets == {a \in DOMAIN adversaries : "prob_tickets" \in DOMAIN adversaries[a]}
C9_TicketsPartition ==
    /\ \A a, b \in WithTickets :
          a # b => adversaries[a].prob_tickets \cap adversaries[b].prob_tickets = {}
    /\ \A a \in WithTickets : adversaries[a].prob_tickets \subseteq TicketPool
    /\ SumSeq([i \in 1..Cardinality(WithTickets) |->
                  Cardinality(adversaries[i - 1].prob_tickets)])
         <= pos_avg_ticket_pool_size

\* C9 witness: both adversaries of a stake-mode run own tickets
C9_Witness ==
    /\ pc = "create_simulation"
    /\ WithTickets = {0, 1}
    /\ \A a \in WithTickets : adversaries[a].prob_tickets # {}

\* C10: in a stake-mode attempt with a PoW winner, an owner of the drawn hash
\* that owns a strict majority of the k drawn tickets gets one validated block
\* more and one block more in its chain; an owner that does not gets one
\* invalidated block more and no block; an adversary that does not own the
\* drawn hash keeps its counters and its chain.
C10_ConfirmedIffMajority ==
    [][(AttemptStep /\ "pos_allowed_drawn_tickets" \in DOMAIN attempt') =>
        LET k == attempt'.pos_allowed_drawn_tickets IN
        /\ k \in {3, 4, 5}
        /\ \A a \in DOMAIN adversaries :
            LET old == adversaries[a]
                new == adversaries'[a]
                t == attempt'.total_tickets[a]
            IN
            IF a \notin OwnersOfDrawnHash(adversaries, cycles')
            THEN /\ new.validated_blocks = old.validated_blocks
                 /\ new.invalidated_blocks = old.invalidated_blocks
                 /\ new.chain = old.chain
            ELSE IF StrictMajority(t, k)
            THEN /\ new.validated_blocks = old.validated_blocks + 1
                 /\ new.invalidated_blocks = old.invalidated_blocks
                 /\ ChainLen(adversaries', a) = ChainLen(adversaries, a) + 1
            ELSE /\ new.validated_blocks = old.validated_blocks
                 /\ new.invalidated_blocks = old.invalidated_blocks + 1
                 /\ new.chain = old.chain]_vars

\* C10 witness: with a committee of 4 a PoW winner that owns exactly 2 of the
\* drawn tickets was not confirmed
C10_Witness ==
    /\ pc = "mine_block"
    /\ "pos_allowed_drawn_tickets" \in DOMAIN attempt
    /\ attempt.pos_allowed_drawn_tickets = 4
    /\ \E a \in Range(cycles.cur.pow_winners) :
          /\ attempt.total_tickets[a] = 2
          /\ adversaries[a].invalidated_blocks = 1

\* C11: every ticket an adversary owns is a ticket the committee of an attempt
\* is sampled from (the original claim; refuted by ticket 0, which
\* calc_hashpower can give to an adversary and mine_block never draws).
C11_OwnedTicketsCanBeDrawn ==
    \A a \in WithTickets : adversaries[a].prob_tickets \subseteq CommitteePool

\* C12: the number of hashes an adversary owns is its share of the configured
\* hash space up to rounding: it differs from hashpower / 100 * block_hash_space
\* by half a hash at most (the original claim; refuted by a hash space of
\* twice the default size, where an adversary of 50 percent owns a quarter).
WithHashes ==
    {a \in DOMAIN adversaries : "prob_block_hashes" \in DOMAIN adversaries[a]}
C12_HashesProportionalToSpace ==
    \A a \in WithHashes :
        2 * Abs(Cardinality(adversaries[a].prob_block_hashes) * FullPow
                  - adversaries[a].hashpower * block_hash_space)
          <= FullPow

\* C13: when the size requested for an adversary exceeds what is left in the
\* pool sampled (the hash space, or the tickets no earlier adversary has got),
\* calc_hashpower ends in ValueError and nothing runs after it; otherwise the
\* run goes on; and an adversary that has got hashes or tickets has got as
\* many as were requested.
RECURSIVE TicketsRequestedBefore(_, _)
TicketsRequestedBefore(stake, i) ==
    IF i = 1 THEN 0
    ELSE TicketsRequestedBefore(stake, i - 1) + TicketSampleSize(stake[i - 1])
HashShortfall ==
    \E i \in 1..Len(args.pow) : HashSampleSize(args.pow[i]) > block_hash_space
TicketShortfall ==
    /\ StakeMode
    /\ \E i \in 1..Len(args.pos) :
          TicketSampleSize(args.pos[i])
            > pos_avg_ticket_pool_size - TicketsRequestedBefore(args.pos, i)
C13_ShortfallIsAnError ==
    [][/\ pc # "ValueError"
       /\ (pc = "calc_hashpower" /\ pc' # "exit7") =>
            /\ pc' = IF HashShortfall \/ TicketShortfall
                     THEN "ValueError" ELSE "create_simulation"
            /\ \A a \in DOMAIN adversaries' :
                  LET adv == adversaries'[a] IN
                  /\ "prob_block_hashes" \in DOMAIN adv =>
                        Cardinality(adv.prob_block_hashes) = HashSampleSize(adv.hashpower)
                  /\ "prob_tickets" \in DOMAIN adv =>
                        Cardinality(adv.prob_tickets) = TicketSampleSize(adv.stakesize)]_vars

\* C13 witness: the tickets of A0 were sampled and the sample of A1 was
\* larger than the rest of the pool
C13_Witness ==
    /\ pc = "ValueError"
    /\ "prob_tickets" \in DOMAIN adversaries[0]
    /\ "stakesize" \in DOMAIN adversaries[1]
    /\ "prob_tickets" \notin DOMAIN adversaries[1]

\* C14: with --rewind-blocks N, 1 <= N <= 6, the distance is at least N when
\* it is measured before the first mined round, in the adversaries' chains and
\* in the record of the cycle, and the first mined round is round N.
MinedRounds == Cardinality({k \in cycles.keys : Len(k.v) = 3})
C14_RewindDistance ==
    LET N == args.rewind_blocks IN
    (N \in 1..6 /\ pc \in {"calc_distance", "mine_block", "mined"}) =>
        /\ cycle_height >= N
        /\ (pc = "calc_distance" /\ cycle_height = N) =>
              \E a, b \in DOMAIN adversaries :
                  ChainLen(adversaries, a) - ChainLen(adversaries, b) >= N
        /\ (/\ pc = "mine_block" /\ cycle_height = N
            /\ "distance_before_this_cycle" \in DOMAIN cycles.cur) =>
              cycles.cur.distance_before_this_cycle >= N
        /\ (pc = "mined" /\ MinedRounds = 1) =>
              cycle_height = N /\ CycleKey(N) \in cycles.keys

\* C14 witness: the first round after a rewind of 3 blocks for A1 was mined
C14_Witness ==
    /\ pc = "mined"
    /\ args.rewind_blocks = 3
    /\ args.rewind_adv = 1
    /\ MinedRounds = 1

\* C16: wherever mine_block is, an attempt that is accepted is possible: some
\* hash has an owner, and in stake mode some committee gives an owner of that
\* hash a strict majority (the original claim; refuted when one adversary has
\* all the hash power and another one all the stake).
C16_AcceptancePossible ==
    pc = "mine_block" =>
        \E h \in HashSpace : \E a \in DOMAIN adversaries :
            /\ h \in adversaries[a].prob_block_hashes
            /\ StakeMode =>
                  \E k \in CommitteeSizes : \E drawn \in KSubsets(CommitteePool, k) :
                      StrictMajority(Cardinality(drawn \cap adversaries[a].prob_tickets), k)

\* C18: at the end of a batch, for every adversary, the reported average of
\* sum_blocks times the number of runs is the sum of the adversary's
\* sum_blocks over the runs (the original claim; refuted by three runs with
\* 6, 6 and 7 blocks, whose reported average is 6.333333).
RunSumBlocks(a) == SumSeq([i \in 1..Len(sims) |-> sims[i]["adversaries"][a].sum_blocks])
C18_MeanTimesCountIsSum ==
    pc = "exit0" =>
        \A a \in DOMAIN adversaries :
            summary.sum_blocks[a].average * args.simulations = RunSumBlocks(a) * Million

\* C18 as amended: the reported average is the sum over the runs divided by
\* the number of runs and rounded to six decimals, so that the average times
\* the number of runs differs from the sum by at most half a millionth per
\* run; every run of the batch has one record and one term.
C18_MeanIsRoundedSum ==
    pc = "exit0" =>
        /\ Len(sims) = args.simulations
        /\ summary.total = args.simulations
        /\ \A a \in DOMAIN adversaries :
              2 * Abs(summary.sum_blocks[a].average * args.simulations
                        - RunSumBlocks(a) * Million)
                <= args.simulations

\* C18 witness: a batch of three runs ended in which A0 did not have the same
\* number of blocks in every run
C18_Witness ==
    /\ pc = "exit0"
    /\ Len(sims) = 3
    /\ sims[1]["adversaries"][0].sum_blocks # sims[2]["adversaries"][0].sum_blocks

\* C19: a command line with fewer than 2 adversaries, hash shares that do not
\* sum to 100, stake shares that do not sum to 100, lists of different
\* lengths, or a rewind adversary outside the list never gets past
\* sanity_check (the original claim; refuted by shares that sum to 100 only
\* after each is rounded to two decimals).
Rejected == pc \in {"sanity_check", "exit1", "exit2", "exit3", "exit4"} /\ adversaries = EmptyDict
C19_BadConfigRejected ==
    (\/ Len(args.pow) < 2
     \/ SumSeq(args.pow) # FullPow
     \/ args.pos # <<>> /\ SumSeq(args.pos) # FullPos
     \/ args.pos # <<>> /\ Len(args.pos) # Len(args.pow)
     \/ args.rewind_adv >= Len(args.pow))
    => Rejected

\* C19 as amended: the shares are summed after each has been rounded to two
\* decimals: a command line with fewer than 2 adversaries, hash shares or
\* stake shares whose roundings do not sum to 100, lists of different lengths,
\* or a rewind adversary outside the list is rejected before any endowment.
C19_BadRoundedConfigRejected ==
    (\/ Len(args.pow) < 2
     \/ SumSeq(Round2List(args.pow)) * Precision # FullPow
     \/ args.pos # <<>> /\ SumSeq(Round2List(args.pos)) * Precision # FullPos
     \/ args.pos # <<>> /\ Len(args.pos) # Len(args.pow)
     \/ args.rewind_adv >= Len(args.pow))
    => Rejected

\* C19 witness: two hash shares a little below 100 percent each were rejected
\* for their sum
C19_Witness ==
    /\ pc = "exit2"
    /\ args.pow = <<FullPow - 1, FullPow - 1>>

\* C20: the batch is not stopped by an interruption while a run is between
\* two rounds or in a round (the original claim; refuted as KeyboardInterrupt
\* ends the program wherever it is).
C20_InterruptBetweenRuns ==
    [][pc' = "exit7" => pc \notin {"calc_distance", "mine_block", "mined"}]_vars

\* C21: after a round with cycle index >= 1 has been mined, its record holds
\* the distance measured before the round and the probability computed for
\* it, together with the drawn hash and the winners (the original claim;
\* refuted as mine_block makes the record anew: the int cycle_height is never
\* a key of cycles).
C21_RoundRecordKeepsDistance ==
    (pc = "mined" /\ cycle_height >= 1) =>
        /\ "distance_before_this_cycle" \in DOMAIN cycles.cur
        /\ "probability_before_this_cycle" \in DOMAIN cycles.cur
        /\ "drawn_block_hash" \in DOMAIN cycles.cur
        /\ "pow_winners" \in DOMAIN cycles.cur

\* C22: attacker_success_probability returns exactly 1 for z = 0: for q = 0.1,
\* for every q < 1 a hash power on the command line gives, for a q that is
\* some float, and in every record that calc_distance writes at distance 0.
C22_CaughtUpProbabilityIsOne ==
    /\ AttackerSuccessProbability(Rat(1, 10), 0) = One
    /\ \A n \in 0..(FullPow - 1) : AttackerSuccessProbability(Rat(n, FullPow), 0) = One
    /\ AttackerSuccessProbability(Inexact, 0) = One
    /\ ("distance_before_this_cycle" \in DOMAIN cycles.cur
        /\ cycles.cur.distance_before_this_cycle = 0)
       => cycles.cur.probability_before_this_cycle = One

\* C22 witness: calc_distance has written the record of a tie between
\* adversaries whose q is neither 0 nor 1/2
C22_Witness ==
    /\ pc = "mine_block"
    /\ "distance_before_this_cycle" \in DOMAIN cycles.cur
    /\ cycles.cur.distance_before_this_cycle = 0
    /\ Q(adversaries[LaggingAdv(adversaries)], StakeMode) \notin {Zero, Rat(1, 2)}

\* the counters of an adversary that every mode has, and those of stake mode
SameBlocks(old, new) ==
    /\ new.drawn_block_hashes = old.drawn_block_hashes
    /\ new.sum_blocks = old.sum_blocks
    /\ new.chain = old.chain

\* C23: an attempt of mine_block that is not accepted leaves every
\* adversary's validated_blocks, invalidated_blocks and block count as they
\* were (the original claim; refuted by a stake-mode attempt in which no PoW
\* winner is confirmed: the invalidated_blocks of the PoW winners grow).
C23_RejectedAttemptChangesNothing ==
    [][RejectedStep =>
        \A a \in DOMAIN adversaries :
            /\ SameBlocks(adversaries[a], adversaries'[a])
            /\ StakeMode =>
                 /\ adversaries'[a].validated_blocks = adversaries[a].validated_blocks
                 /\ adversaries'[a].invalidated_blocks = adversaries[a].invalidated_blocks]_vars

\* C23 as amended: an attempt that is not accepted leaves every adversary's
\* validated_blocks and block count as they were; it leaves invalidated_blocks
\* as it was when there was no PoW winner, and in a stake-mode attempt in
\* which no PoW winner is confirmed it adds one to the invalidated_blocks of
\* every PoW winner and of no other adversary.
C23_RejectedAttemptCountsInvalidations ==
    [][RejectedStep =>
        \A a \in DOMAIN adversaries :
            /\ SameBlocks(adversaries[a], adversaries'[a])
            /\ StakeMode =>
                 /\ adversaries'[a].validated_blocks = adversaries[a].validated_blocks
                 /\ adversaries'[a].invalidated_blocks =
                       adversaries[a].invalidated_blocks
                         + (IF a \in OwnersOfDrawnHash(adversaries, cycles') THEN 1 ELSE 0)]_vars

\* C23 witness: a stake-mode attempt had a PoW winner that was not confirmed,
\* and was rejected, after a round had been mined
C23_Witness ==
    /\ pc = "mine_block"
    /\ cycle_height >= 1
    /\ "pos_winner" \in DOMAIN attempt
    /\ ~attempt.pos_winner
    /\ \E a \in Range(cycles.cur.pow_winners) : adversaries[a].invalidated_blocks = 1

\* what calc_distance returns at cycle height h (line 386 and lines 409-413)
ObservedDistance(advs, h) == IF h < 1 THEN 0 ELSE CalculatedDistance(advs)

\* C24: inside the loop of run_simulation the block count of an adversary
\* changes only in the accepted attempt of a call of mine_block, by one at
\* most and never downwards, and the distance calc_distance returns after the
\* round differs by at most 1 from the one it returned before the round.
C24_GrowthAtMostOne ==
    [][(pc \in {"calc_distance", "mine_block", "mined"}) =>
        /\ \A a \in DOMAIN adversaries :
              LET old == adversaries[a].drawn_block_hashes
                  new == adversaries'[a].drawn_block_hashes
              IN  /\ new \in {old, old + 1}
                  /\ new # old => AcceptedStep
        /\ AcceptedStep =>
              LET before == ObservedDistance(adversaries, cycle_height)
                  after == ObservedDistance(adversaries', cycle_height + 1)
              IN  Abs(after - before) <= 1
       ]_vars

\* C24 witness: a round of three adversaries was mined by two of them at once
C24_Witness ==
    /\ pc = "mined"
    /\ cycle_height >= 1
    /\ Len(args.pow) = 3
    /\ Len(cycles.cur.pow_winners) = 2

\* C25: when calc_distance records a milestone, the value recorded is the
\* number of cycles completed so far in the run, rewind blocks plus rounds
\* mined, which is cycle_height (the original claim; refuted as the value
\* recorded is cycle_height + 1).
C25_MilestoneIsCyclesCompleted ==
    [][(pc = "calc_distance" /\ pc' \in {"mine_block", "finish"}) =>
        /\ sim'["2-block-diff"] # sim["2-block-diff"] =>
              sim'["2-block-diff"] = cycle_height
        /\ sim'["6-block-diff"] # sim["6-block-diff"] =>
              sim'["6-block-diff"] = cycle_height]_vars

\* an adversary as calc_hashpower makes it: no block, every counter 0
Fresh(adv) ==
    /\ adv.chain = {}
    /\ adv.drawn_block_hashes = 0
    /\ adv.sum_blocks = 0
    /\ "validated_blocks" \in DOMAIN adv => adv.validated_blocks = 0
    /\ "invalidated_blocks" \in DOMAIN adv => adv.invalidated_blocks = 0

\* C26: every run of a batch starts from adversaries that calc_hashpower has
\* made anew, and no step changes the record stored for an earlier run; the
\* dict stored last, which is the object the global adversaries names until
\* calc_hashpower binds the name to a new dict, equals the value stored.
C26_FreshRunsKeepSnapshots ==
    [][/\ (pc = "calc_hashpower" /\ pc' = "create_simulation") =>
            \A a \in DOMAIN adversaries' : Fresh(adversaries'[a])
       /\ Len(sims') >= Len(sims)
       /\ \A i \in 1..Len(sims) : sims'[i] = sims[i]
       /\ pc = "run_done" =>
            /\ sim["adversaries"] = adversaries
            /\ Len(sims') > Len(sims) => sims'[Len(sims')]["adversaries"] = adversaries
       /\ (pc \in {"calc_hashpower", "calc_averages"} /\ Len(sims) >= 1) =>
            sims[Len(sims)]["adversaries"] = adversaries]_vars

\* C26 witness: the second run of a batch has mined a round while the record
\* of the first run holds the six blocks of A0
C26_Witness ==
    /\ pc = "mined"
    /\ s = 1
    /\ Len(sims) = 1
    /\ Cardinality(sims[1]["adversaries"][0].chain) >= 6
    /\ Cardinality(adversaries[0].chain) = args.rewind_blocks

\* the adversaries whose chain a step makes longer
Grown == {a \in DOMAIN adversaries : ChainLen(adversaries', a) > ChainLen(adversaries, a)}

\* C27: in stake mode an attempt of mine_block confirms one adversary at
\* most, and an accepted attempt makes exactly one chain longer, by one block,
\* however many adversaries own the drawn hash.
C27_OneConfirmedAtMost ==
    [][(AttemptStep /\ StakeMode) =>
        /\ "pos_winners" \in DOMAIN cycles'.cur =>
              Len(cycles'.cur.pos_winners) <= 1
        /\ Cardinality({a \in DOMAIN adversaries :
                adversaries'[a].validated_blocks > adversaries[a].validated_blocks}) <= 1
        /\ AcceptedStep =>
              /\ Cardinality(Grown) = 1
              /\ \A a \in Grown : ChainLen(adversaries', a) = ChainLen(adversaries, a) + 1
        /\ RejectedStep => Grown = {}]_vars

\* C27 witness: both adversaries owned the drawn hash of an accepted
\* stake-mode round and A1 alone was confirmed
C27_Witness ==
    /\ pc = "mined"
    /\ StakeMode
    /\ cycles.cur.pow_winners = <<0, 1>>
    /\ cycles.cur.pos_winners = <<1>>
    /\ adversaries[0].invalidated_blocks = 1

\* C28: in the record of a completed run with --rewind-blocks from 0 to 6 the
\* sum_blocks of every adversary is the length of its chain (the original
\* claim; refuted by --rewind-blocks 6: no round is mined, sum_blocks is never
\* written after calc_hashpower and stays 0 beside a chain of 6 blocks).
C28_SumBlocksIsChainLength ==
    (pc = "run_done" /\ args.rewind_blocks \in 0..6) =>
        \A a \in DOMAIN sim["adversaries"] :
            sim["adversaries"][a].sum_blocks = Cardinality(sim["adversaries"][a].chain)

\* C29: every completed run has one recorded 6-block leader, which is one of
\* the adversaries, and after a completed batch the win counts of the
\* adversaries sum to the number of runs.
C29_WinCountsSumToRuns ==
    /\ pc = "run_done" =>
          /\ "6-block-diff_winner" \in DOMAIN sim
          /\ sim["6-block-diff_winner"] \in DOMAIN adversaries
    /\ \A i \in 1..Len(sims) : sims[i]["6-block-diff_winner"] \in DOMAIN adversaries
    /\ pc = "exit0" =>
          /\ DOMAIN summary.total_wins = DOMAIN adversaries
          /\ SumSeq([i \in 1..Len(args.pow) |-> summary.total_wins[i - 1]])
                = args.simulations

\* C29 witness: a batch of three runs was completed and A0 was the leader of
\* every run
C29_Witness ==
    /\ pc = "exit0"
    /\ args.simulations = 3
    /\ summary.total_wins[0] = 3
    /\ summary.total_wins[1] = 0

\* C30: no configuration that sanity_check accepts makes the computation of
\* the catch-up probability fail (the original claim; refuted by a rewind
\* given to the other adversary than the one with 100 percent: the lagging
\* adversary has q = 1 and q / p raises ZeroDivisionError).
C30_ProbabilityNeverFails ==
    pc # "ZeroDivisionError"

\* C31: at the end of a completed run with --rewind-blocks from 0 to 6 the
\* 2-block-diff of the run is not -1, and calc_averages takes the mean of no
\* -1 (the original claim; refuted by a rewind of 3 blocks or more after which
\* the distance goes to 6 without being 2 at any call of calc_distance).
C31_TwoBlockDiffIsSet ==
    /\ (pc \in {"finish", "run_done"} /\ args.rewind_blocks \in 0..6) =>
          sim["2-block-diff"] # -1
    /\ (pc \in {"calc_averages", "exit0"} /\ args.rewind_blocks \in 0..6) =>
          \A i \in 1..Len(block_diff_2) : block_diff_2[i] # -1

====
